---- MODULE Spec2Model ----
(***************************************************************************)
(* Model of the collaborative-sync plugin: the CollabFileCache (shadow     *)
(* store, lock table, refresh queue; src/file-cache.ts), the remote calls  *)
(* of SyncUtil (src/sync-util.ts) and the event handlers, timers and sync  *)
(* driver of MyPlugin (src/main.ts).                                       *)
(*                                                                         *)
(* Strings (paths, document contents, server messages) are sequences of    *)
(* symbols, so that startsWith / slice / contains are computed as the code *)
(* computes them.  A symbol is one character or one fixed word ("Shared",  *)
(* "Untitled.md"); no symbol is a prefix of another, so a string starts    *)
(* with another exactly when its sequence of symbols does.  Maps           *)
(* ({[path: string]: ...}) are functions whose DOMAIN is the set of keys   *)
(* present.                                                                *)
(***************************************************************************)
EXTENDS Integers, Sequences, FiniteSets, TLC

VARIABLES
    now,            \* the wall clock, Date.now(), in ms
    fileCache,      \* CollabFileCache.fileCache : path -> FileShadow
    updateLock,     \* CollabFileCache.updateLock : path -> acquisition time
    updateQueue,    \* CollabFileCache.updateQueue : sequence of UpdateItem
    files,          \* the vault (Document Store) : path -> live content
    sharedFolders,  \* settings.sharedFolders : folder -> remote root id
    openFiles,      \* files shown in markdown leaves
    userId,         \* SyncUtil.userId
    tasks,          \* the asynchronous operations suspended at an await
    last,           \* history: the last cache / driver operation and its result
    calls           \* history: per path, the last acquireLock call since the last releaseLock

vars == <<now, fileCache, updateLock, updateQueue, files, sharedFolders,
          openFiles, userId, tasks, last, calls>>

-----------------------------------------------------------------------------
(* Bounds of the model *)

\* the clock is observed up to this instant
MaxNow == 5000
\* longest document content a user types or the server sends
MaxLen == 1
\* longest document content the model lets a patch produce
MaxContentLen == 2
\* asynchronous operations in flight at the same time
MaxTasks == 2

(* Program constants *)

LOCK_TIMEOUT == 5000

-----------------------------------------------------------------------------
(* Strings *)

Null == <<>>

\* s.startsWith(p)
StartsWith(s, p) == Len(p) <= Len(s) /\ SubSeq(s, 1, Len(p)) = p

\* s.slice(n): drop the first n symbols
Slice(s, n) == SubSeq(s, n + 1, Len(s))

\* s.contains(sub)
Contains(s, sub) ==
    \E i \in 0..(Len(s) - Len(sub)) : SubSeq(s, i + 1, i + Len(sub)) = sub

\* the index of the last "/" of a path, 0 if none
LastSlash(s) ==
    IF \E i \in 1..Len(s) : s[i] = "/"
    THEN CHOOSE i \in 1..Len(s) : s[i] = "/" /\ \A j \in (i + 1)..Len(s) : s[j] # "/"
    ELSE 0

\* TFile.name: the last segment of the path
FileName(path) == Slice(path, LastSlash(path))

-----------------------------------------------------------------------------
(* Maps with string keys *)

\* m[k] = v
MapPut(m, k, v) == [x \in (DOMAIN m) \cup {k} |-> IF x = k THEN v ELSE m[x]]

\* delete m[k]
MapDel(m, k) == [x \in (DOMAIN m) \ {k} |-> m[x]]

-----------------------------------------------------------------------------
(* The diff-match-patch calls of CollabFileCache.  A patch list is a       *)
(* sequence of hunks [start, pre, del, ins, post]: at offset start of the  *)
(* old text, the context pre, then del replaced by ins, then the context   *)
(* post.  The documents of the model are shorter than the library's patch  *)
(* margin, so the context of a hunk is the whole common prefix and suffix. *)

Min(a, b) == IF a < b THEN a ELSE b

Abs(a) == IF a < 0 THEN 0 - a ELSE a

\* length of the longest common prefix of two texts
CommonPrefix(x, y) ==
    LET agree == {n \in 0..Min(Len(x), Len(y)) : SubSeq(x, 1, n) = SubSeq(y, 1, n)}
    IN  CHOOSE n \in agree : \A m \in agree : m <= n

\* length of the longest common suffix of two texts
CommonSuffix(x, y) ==
    LET agree == {n \in 0..Min(Len(x), Len(y)) :
                     SubSeq(x, Len(x) - n + 1, Len(x)) = SubSeq(y, Len(y) - n + 1, Len(y))}
    IN  CHOOSE n \in agree : \A m \in agree : m <= n

\* diffy.patch_make(text1, text2): no hunk for equal texts, else one hunk
\* that replaces what lies between the common prefix and the common suffix
patch_make(text1, text2) ==
    IF text1 = text2 THEN <<>>
    ELSE LET cp == CommonPrefix(text1, text2)
             r1 == Slice(text1, cp)
             r2 == Slice(text2, cp)
             cs == CommonSuffix(r1, r2)
         IN  << [start |-> 0,
                 pre   |-> SubSeq(text1, 1, cp),
                 del   |-> SubSeq(r1, 1, Len(r1) - cs),
                 ins   |-> SubSeq(r2, 1, Len(r2) - cs),
                 post  |-> Slice(r1, Len(r1) - cs)] >>

\* one line of the text form of a patch
Line(tag, text, start) == [tag |-> tag, text |-> text, start |-> start]

\* the lines of one hunk: "@@" header, " " context, "-" deletion, "+" insertion
HunkLines(h) ==
       << Line("@@", <<>>, h.start) >>
    \o (IF h.pre  = <<>> THEN <<>> ELSE << Line(" ", h.pre, 0) >>)
    \o (IF h.del  = <<>> THEN <<>> ELSE << Line("-", h.del, 0) >>)
    \o (IF h.ins  = <<>> THEN <<>> ELSE << Line("+", h.ins, 0) >>)
    \o (IF h.post = <<>> THEN <<>> ELSE << Line(" ", h.post, 0) >>)

RECURSIVE patch_toText(_)
\* diffy.patch_toText(patches): the empty text for no hunk
patch_toText(patches) ==
    IF patches = <<>> THEN <<>>
    ELSE HunkLines(Head(patches)) \o patch_toText(Tail(patches))

\* a parsed line added to the hunks read so far
AddLine(hunks, l) ==
    IF l.tag = "@@"
    THEN Append(hunks, [start |-> l.start, pre |-> <<>>, del |-> <<>>,
                        ins |-> <<>>, post |-> <<>>])
    ELSE LET n == Len(hunks)
             h == hunks[n]
         IN  [hunks EXCEPT ![n] =
                 IF l.tag = "-" THEN [h EXCEPT !.del = h.del \o l.text]
                 ELSE IF l.tag = "+" THEN [h EXCEPT !.ins = h.ins \o l.text]
                 ELSE IF h.del = <<>> /\ h.ins = <<>>
                      THEN [h EXCEPT !.pre = h.pre \o l.text]
                      ELSE [h EXCEPT !.post = h.post \o l.text]]

RECURSIVE ParseLines(_, _)
ParseLines(hunks, text) ==
    IF text = <<>> THEN hunks
    ELSE ParseLines(AddLine(hunks, Head(text)), Tail(text))

\* diffy.patch_fromText(text)
patch_fromText(text) == ParseLines(<<>>, text)

\* one hunk applied to a text: where the hunk's old text is found (nearest to
\* the expected offset) it is replaced by the new text; a hunk whose old text
\* is not found is skipped (best effort, no error).  Returns the text and the
\* shift of the following hunks.
ApplyHunk(h, text, delta) ==
    LET old      == h.pre \o h.del \o h.post
        expected == h.start + delta
        found    == {i \in 0..(Len(text) - Len(old)) :
                        SubSeq(text, i + 1, i + Len(old)) = old}
    IN  IF found = {} THEN [text |-> text, delta |-> delta - (Len(h.ins) - Len(h.del))]
        ELSE LET at == CHOOSE i \in found : \A j \in found :
                           \/ Abs(i - expected) < Abs(j - expected)
                           \/ Abs(i - expected) = Abs(j - expected) /\ i <= j
             IN  [text  |-> SubSeq(text, 1, at) \o h.pre \o h.ins \o h.post
                             \o Slice(text, at + Len(old)),
                  delta |-> at - expected]

RECURSIVE ApplyHunks(_, _, _)
ApplyHunks(patches, text, delta) ==
    IF patches = <<>> THEN text
    ELSE LET r == ApplyHunk(Head(patches), text, delta)
         IN  ApplyHunks(Tail(patches), r.text, r.delta)

\* diffy.patch_apply(patches, text)[0]
patch_apply(patches, text) == ApplyHunks(patches, text, 0)

\* md5(contents): a digest that tells different contents apart
md5(contents) == <<"md5", contents>>

-----------------------------------------------------------------------------
(* CollabFileCache (src/file-cache.ts) *)

\* createCachedFile(path, content)
createCachedFile(cache, path, content) == MapPut(cache, path, [content |-> content])

\* updateCachedFile that keeps the entry it finds
updateCachedFile_Stale(cache, path, content) ==
    IF path \in DOMAIN cache THEN cache ELSE MapPut(cache, path, [content |-> content])

\* updateCachedFile(path, content)
updateCachedFile(cache, path, content) == MapPut(cache, path, [content |-> content])

\* the entry is left in the cache
deleteCachedFile_Kept(cache, path) == cache

\* delete this.fileCache.fileCache[file.path]
deleteCachedFile(cache, path) == MapDel(cache, path)

\* isTracked(path)
isTracked(cache, path) == path \in DOMAIN cache

\* an UpdateItem
UpdateItem(path, visibility) == [path |-> path, visibility |-> visibility]

\* pushUpdate without the search for a pending item
pushUpdate_NoSearch(queue, path, delay, t) ==
    [ret |-> TRUE, queue |-> Append(queue, UpdateItem(path, t + delay))]

\* pushUpdate(path, delay) at clock reading t
pushUpdate(queue, path, delay, t) ==
    IF \E i \in 1..Len(queue) : queue[i].path = path
    THEN [ret |-> FALSE, queue |-> queue]
    ELSE [ret |-> TRUE, queue |-> Append(queue, UpdateItem(path, t + delay))]

\* the queue without its head, whatever the depth
Splice_Head(queue, depth) == Tail(queue)

\* updateQueue.splice(depth, 1): the queue without the item at index depth
Splice(queue, depth) ==
    SubSeq(queue, 1, depth) \o SubSeq(queue, depth + 2, Len(queue))

\* the comparison of the visibility test inverted
IsVisible_Inverted(item, t) == item.visibility > t

\* nextUpdate.visibility < now
IsVisible(item, t) == item.visibility < t

RECURSIVE getNextUpdate(_, _, _)
\* getNextUpdate(depth); every level of the recursion reads Date.now() again:
\* clock[d] is the reading at depth d.  Returns the path (or null), the queue
\* left and the last reading of the clock.
getNextUpdate(queue, depth, clock) ==
    IF depth >= Len(queue)
    THEN [ret |-> Null, queue |-> queue, at |-> clock[depth]]
    ELSE IF IsVisible(queue[1], clock[depth])
         THEN [ret |-> queue[depth + 1].path, queue |-> Splice(queue, depth),
               at |-> clock[depth]]
         ELSE getNextUpdate(queue, depth + 1, clock)

\* acquireLock with the age comparison inverted
acquireLock_Inverted(lock, path, t) ==
    IF path \in DOMAIN lock /\ t - lock[path] > LOCK_TIMEOUT
    THEN [ret |-> FALSE, lock |-> lock]
    ELSE [ret |-> TRUE, lock |-> MapPut(MapDel(lock, path), path, t)]

\* acquireLock that stamps the entry on a refused call too
acquireLock_Extends(lock, path, t) ==
    IF path \in DOMAIN lock /\ t - lock[path] < LOCK_TIMEOUT
    THEN [ret |-> FALSE, lock |-> MapPut(lock, path, t)]
    ELSE [ret |-> TRUE, lock |-> MapPut(MapDel(lock, path), path, t)]

\* acquireLock(path) at clock reading t
acquireLock(lock, path, t) ==
    IF path \in DOMAIN lock /\ t - lock[path] < LOCK_TIMEOUT
    THEN [ret |-> FALSE, lock |-> lock]
    ELSE [ret |-> TRUE, lock |-> MapPut(MapDel(lock, path), path, t)]

\* releaseLock(path)
releaseLock(lock, path) == MapDel(lock, path)

\* revert(path, content)
revert(cache, path, content) ==
    IF path \in DOMAIN cache THEN MapPut(cache, path, [content |-> content]) ELSE cache

\* getPatchBlock(path, content); throws (err) when the path has no shadow
getPatchBlock(cache, path, content) ==
    IF path \notin DOMAIN cache
    THEN [err |-> TRUE, ret |-> <<>>, cache |-> cache]
    ELSE [err   |-> FALSE,
          ret   |-> patch_toText(patch_make(cache[path].content, content)),
          cache |-> MapPut(cache, path, [content |-> content])]

\* applyPatch that patches the content and leaves the shadow as it is
applyPatch_NoShadow(cache, path, content, patch_block) ==
    IF path \notin DOMAIN cache
    THEN [err |-> TRUE, ret |-> content, cache |-> cache]
    ELSE [err |-> FALSE,
          ret |-> patch_apply(patch_fromText(patch_block), content),
          cache |-> cache]

\* applyPatch(path, content, patch_block); throws (err) when the path has no shadow
applyPatch(cache, path, content, patch_block) ==
    IF path \notin DOMAIN cache
    THEN [err |-> TRUE, ret |-> content, cache |-> cache]
    ELSE LET patches   == patch_fromText(patch_block)
             content_p == patch_apply(patches, content)
             shadow_p  == patch_apply(patches, cache[path].content)
         IN  [err |-> FALSE, ret |-> content_p,
              cache |-> MapPut(cache, path, [content |-> shadow_p])]

\* getChecksum(path)
getChecksum(cache, path) ==
    md5(IF path \in DOMAIN cache THEN cache[path].content ELSE <<>>)

-----------------------------------------------------------------------------
(* The vault, the settings and the clock *)

SHARED_FOLDER_ROOT == <<"Shared">>

\* the local folder registered as shared
Folder == <<"Shared">>

\* getRootPath(root)
getRootPath(root) == SHARED_FOLDER_ROOT \o <<"/">> \o root

FileA == getRootPath(Folder) \o <<"/", "a">>

FileB == getRootPath(Folder) \o <<"/", "b">>

UNTITLED == <<"Untitled.md">>

Untitled == getRootPath(Folder) \o <<"/">> \o UNTITLED

\* the paths of the model
Paths == {FileA, FileB, Untitled}

\* the instants at which the clock is read: around the multiples of the lease
Instants == {t \in 0..MaxNow : t % LOCK_TIMEOUT \in {0, 1, LOCK_TIMEOUT - 1}}

\* the multiples of the lease
LeaseInstants == {t \in Instants : t % LOCK_TIMEOUT = 0}

\* the delays pushUpdate is called with
Delays == {0, LOCK_TIMEOUT}

\* the readings of the clock by one getNextUpdate call on a queue of n items:
\* Date.now() once per level, never going back
Readings(n, instants) ==
    {[d \in 0..n |-> IF d < k THEN now ELSE t] :
        k \in 0..n, t \in {i \in instants : i >= now}}

\* calls[p] when acquireLock(p) has not returned true since the last releaseLock(p)
NoCall == -1

\* a server response: status, patch, checksum, content (and userId, on
\* registration; tree, on a manifest request)
Response(status, patch, checksum, content, uid) ==
    [status |-> status, patch |-> patch, checksum |-> checksum, content |-> content,
     userId |-> uid, tree |-> <<>>]

NoResponse == Response(0, <<>>, <<>>, <<>>, Null)


\* an asynchronous operation suspended at an await.  pc names the await;
\* release: the caller awaits trySync and calls releaseLock after it;
\* content, checksum, patch: what syncLoop read and sent; incoming: the patch
\* of the response; since: the time acquireLock recorded for the caller that
\* releases the lock after the attempt (NoCall for any other task)
Task(pc, path, release, content, checksum, patch, incoming) ==
    [pc |-> pc, path |-> path, release |-> release, content |-> content,
     checksum |-> checksum, patch |-> patch, incoming |-> incoming,
     since |-> NoCall]

Idle == Task("idle", Null, FALSE, <<>>, <<>>, <<>>, <<>>)

\* the task of an attempt whose caller acquired the lock at t and keeps it
\* until the attempt returns
Holding(task, t) == IF task = Idle THEN Idle ELSE [task EXCEPT !.since = t]

\* the record of the last step: the operation, its path, its result, and for a
\* step that resumes a task its slot, the task as it was and the response
Event(op, path, ok, slot, task, resp) ==
    [op |-> op, path |-> path, ok |-> ok, slot |-> slot, task |-> task, resp |-> resp]

Last(op, path, ok) == Event(op, path, ok, 0, Idle, NoResponse)

\* the record of a step no property asks about
Quiet == Last("none", Null, FALSE)

Init ==
    /\ now = 0
    /\ fileCache = <<>>
    /\ updateLock = <<>>
    /\ updateQueue = <<>>
    /\ files = [p \in {FileA} |-> <<>>]
    /\ sharedFolders \in {[f \in {Folder} |-> r] : r \in {Folder, <<"r">>}}
    /\ openFiles = {}
    /\ userId = Null
    /\ tasks = [i \in 1..MaxTasks |-> Idle]
    /\ last = Quiet
    /\ calls = [p \in Paths |-> NoCall]

\* time passes
Tick(t) ==
    /\ t > now
    /\ now' = t
    /\ last' = Quiet
    /\ UNCHANGED <<fileCache, updateLock, updateQueue, files, sharedFolders,
                   openFiles, userId, tasks, calls>>

-----------------------------------------------------------------------------
(* The refresh queue on its own: pushUpdate and getNextUpdate called in    *)
(* any order, with any of the delays                                       *)

PushUpdate(path, delay) ==
    LET r == pushUpdate(updateQueue, path, delay, now)
    IN  /\ updateQueue' = r.queue
        /\ last' = Last("pushUpdate", path, r.ret)
        /\ UNCHANGED <<now, fileCache, updateLock, files, sharedFolders,
                       openFiles, userId, tasks, calls>>

GetNextUpdate(clock) ==
    LET r == getNextUpdate(updateQueue, 0, clock)
    IN  /\ updateQueue' = r.queue
        /\ now' = r.at
        /\ last' = Last("getNextUpdate", r.ret, r.ret # Null)
        /\ UNCHANGED <<fileCache, updateLock, files, sharedFolders,
                       openFiles, userId, tasks, calls>>

NextQueue ==
    \/ \E t \in Instants : Tick(t)
    \/ \E p \in Paths, d \in Delays : PushUpdate(p, d)
    \/ \E clock \in Readings(Len(updateQueue), Instants) : GetNextUpdate(clock)

SpecQueue == Init /\ [][NextQueue]_vars

-----------------------------------------------------------------------------
(* The lock table on its own: acquireLock and releaseLock called in any    *)
(* order.  calls[p] is the time of the last acquireLock(p) that returned   *)
(* true with no releaseLock(p) since.                                      *)

AcquireLock(path) ==
    LET r == acquireLock(updateLock, path, now)
    IN  /\ updateLock' = r.lock
        /\ last' = Last("acquireLock", path, r.ret)
        /\ calls' = [calls EXCEPT ![path] = IF r.ret THEN now ELSE @]
        /\ UNCHANGED <<now, fileCache, updateQueue, files, sharedFolders,
                       openFiles, userId, tasks>>

ReleaseLock(path) ==
    /\ updateLock' = releaseLock(updateLock, path)
    /\ last' = Last("releaseLock", path, TRUE)
    /\ calls' = [calls EXCEPT ![path] = NoCall]
    /\ UNCHANGED <<now, fileCache, updateQueue, files, sharedFolders,
                   openFiles, userId, tasks>>

NextLock ==
    \/ \E t \in Instants : Tick(t)
    \/ \E p \in Paths : AcquireLock(p)
    \/ \E p \in Paths : ReleaseLock(p)

SpecLock == Init /\ [][NextLock]_vars

-----------------------------------------------------------------------------
(* MyPlugin (src/main.ts): scope, and the start of a sync attempt *)

\* the contents a user types and the server sends: the prefixes of "abab..."
Contents == {[i \in 1..n |-> IF i % 2 = 1 THEN "a" ELSE "b"] : n \in 0..MaxLen}

FILE_IS_DELETED == <<"File is deleted">>

ROOT_DOES_NOT_EXIST == <<"Root does not exist">>

\* Object.keys(sharedFolders).some((root) => path.startsWith(getRootPath(root)))
InScope(folders, path) ==
    \E root \in DOMAIN folders : StartsWith(path, getRootPath(root))

\* getSharedRoot(file); throws (err) when no shared folder holds the file
getSharedRoot(folders, path) ==
    LET hit == {f \in DOMAIN folders : StartsWith(path, getRootPath(f))}
    IN  IF hit = {} THEN [err |-> TRUE, root |-> Null]
        ELSE [err |-> FALSE, root |-> folders[CHOOSE f \in hit : TRUE]]

\* trySync(file) up to its first await: the task it is suspended as, or Idle
\* when it returns at once.  A tracked file in scope is synced (syncLoop,
\* suspended at vault.cachedRead); an untracked file in scope is registered
\* (registerFile, suspended at vault.read).
trySync(cache, folders, path, release) ==
    IF FileName(path) = UNTITLED THEN Idle
    ELSE IF isTracked(cache, path) /\ InScope(folders, path)
         THEN Task("cachedRead", path, release, <<>>, <<>>, <<>>, <<>>)
    ELSE IF InScope(folders, path)
         THEN Task("vaultRead", path, release, <<>>, <<>>, <<>>, <<>>)
    ELSE Idle

IdleSlots(ts) == {i \in DOMAIN ts : ts[i].pc = "idle"}

\* room for a new suspended task
CanSpawn(ts, task) == task = Idle \/ IdleSlots(ts) # {}

\* the tasks with a new suspended task
Spawn(ts, task) ==
    IF task = Idle THEN ts
    ELSE [ts EXCEPT ![CHOOSE i \in IdleSlots(ts) : \A j \in IdleSlots(ts) : i <= j] = task]

\* if (acquireLock(path)) { trySync(file); releaseLock(path); } : trySync is
\* not awaited, so the lock is released as soon as trySync is suspended
SyncNow(path) ==
    LET r == acquireLock(updateLock, path, now)
        t == trySync(fileCache, sharedFolders, path, FALSE)
    IN  IF r.ret
        THEN /\ CanSpawn(tasks, t)
             /\ tasks' = Spawn(tasks, t)
             /\ updateLock' = releaseLock(r.lock, path)
        ELSE /\ tasks' = tasks
             /\ updateLock' = updateLock

-----------------------------------------------------------------------------
(* Events and timers *)

\* the user edits a document: vault "modify" event
Modify(path, content) ==
    /\ path \in DOMAIN files
    /\ files' = MapPut(files, path, content)
    /\ SyncNow(path)
    /\ last' = Quiet
    /\ UNCHANGED <<now, fileCache, updateQueue, sharedFolders, openFiles, userId, calls>>

\* the user opens a document in the markdown leaf: workspace "file-open" event
FileOpen(path) ==
    /\ path \in DOMAIN files
    /\ openFiles' = {path}
    /\ SyncNow(path)
    /\ last' = Quiet
    /\ UNCHANGED <<now, fileCache, updateQueue, files, sharedFolders, userId, calls>>

\* the outcomes of the remote delete call of the delete handler: none (FALSE)
\* when the handler does not post it
DeleteOutcomes(path) ==
    IF isTracked(fileCache, path) /\ ~getSharedRoot(sharedFolders, path).err
    THEN BOOLEAN
    ELSE {FALSE}

\* the user deletes a document: vault "delete" event.  The handler only posts
\* the delete request for a tracked file (getSharedRoot throws before the
\* call when no shared folder holds the file); the call is not awaited and
\* nothing runs after it, so its outcome, ok, is recorded with the event.
Delete(path, ok) ==
    /\ path \in DOMAIN files
    /\ files' = MapDel(files, path)
    /\ openFiles' = openFiles \ {path}
    /\ last' = IF isTracked(fileCache, path) /\ ~getSharedRoot(sharedFolders, path).err
               THEN Last("delete", path, ok)
               ELSE Quiet
    /\ UNCHANGED <<now, fileCache, updateLock, updateQueue, sharedFolders, userId,
                   tasks, calls>>

\* the user renames a document: vault "rename" event.  For a tracked old path
\* the handler awaits deleteFileByPath(oldPath, getSharedRoot(file)).
Rename(oldPath, path) ==
    /\ oldPath \in DOMAIN files
    /\ path \in Paths \ DOMAIN files
    /\ files' = MapPut(MapDel(files, oldPath), path, files[oldPath])
    /\ openFiles' = IF oldPath \in openFiles THEN {path} ELSE openFiles
    /\ LET t == IF isTracked(fileCache, oldPath)
                   /\ ~getSharedRoot(sharedFolders, path).err
                THEN Task("deleteFile", path, FALSE, <<>>, <<>>, <<>>, <<>>)
                ELSE Idle
       IN  /\ CanSpawn(tasks, t)
           /\ tasks' = Spawn(tasks, t)
    /\ last' = Quiet
    /\ UNCHANGED <<now, fileCache, updateLock, updateQueue, sharedFolders, userId, calls>>

\* the open-file timer: the file of the markdown leaf, if tracked and not
\* locked, is synced; the lock is released after the awaited trySync
OpenTimer(path) ==
    /\ path \in openFiles
    /\ LET r == acquireLock(updateLock, path, now)
           t == Holding(trySync(fileCache, sharedFolders, path, TRUE), now)
       IN  IF isTracked(fileCache, path) /\ r.ret
           THEN /\ CanSpawn(tasks, t)
                /\ tasks' = Spawn(tasks, t)
                /\ updateLock' = IF t = Idle THEN releaseLock(r.lock, path) ELSE r.lock
                /\ last' = Quiet
           ELSE /\ tasks' = tasks
                /\ updateLock' = updateLock
                /\ last' = Quiet
    /\ UNCHANGED <<now, fileCache, updateQueue, files, sharedFolders, openFiles,
                   userId, calls>>

RECURSIVE PushAll(_, _, _)
\* pushUpdate(file.path, 0) for the files in the order given
PushAll(queue, order, t) ==
    IF order = <<>> THEN queue
    ELSE PushAll(pushUpdate(queue, Head(order), 0, t).queue, Tail(order), t)

\* the orders in which vault.getFiles() may list a set of files
Orders(S) ==
    {o \in [1..Cardinality(S) -> S] : \A i, j \in DOMAIN o : i # j => o[i] # o[j]}

\* the enqueue timer: every file whose path starts with a shared folder is
\* pushed with delay 0
EnqueuePass(order) ==
    /\ updateQueue' = PushAll(updateQueue, order, now)
    /\ last' = Last("enqueue", Null,
                    \E i \in DOMAIN order : ~pushUpdate(updateQueue, order[i], 0, now).ret)
    /\ UNCHANGED <<now, fileCache, updateLock, files, sharedFolders, openFiles,
                   userId, tasks, calls>>

\* the files the enqueue timer pushes
EnqueuedFiles ==
    {p \in DOMAIN files : \E folder \in DOMAIN sharedFolders : StartsWith(p, folder)}

\* the path is left where it was taken from
Requeue_Dropped(queue, path, t) == queue

\* the refresh timer failed to acquire the lock: pushUpdate(path, 0)
Requeue(queue, path, t) == pushUpdate(queue, path, 0, t).queue

\* the refresh timer: the next visible path is synced under its lock, or
\* pushed again with delay 0 when its lock is held
RefreshTick(clock) ==
    LET g == getNextUpdate(updateQueue, 0, clock)
        r == acquireLock(updateLock, g.ret, g.at)
        t == IF g.ret \in DOMAIN files
             THEN Holding(trySync(fileCache, sharedFolders, g.ret, TRUE), g.at)
             ELSE Idle
    IN  /\ now' = g.at
        /\ IF g.ret = Null
           THEN /\ updateQueue' = g.queue
                /\ UNCHANGED <<updateLock, tasks>>
                /\ last' = Quiet
           ELSE IF r.ret
           THEN /\ CanSpawn(tasks, t)
                /\ tasks' = Spawn(tasks, t)
                /\ updateLock' = IF t = Idle THEN releaseLock(r.lock, g.ret) ELSE r.lock
                /\ updateQueue' = g.queue
                /\ last' = Last("refresh", g.ret, TRUE)
           ELSE /\ updateQueue' = Requeue(g.queue, g.ret, g.at)
                /\ UNCHANGED <<updateLock, tasks>>
                /\ last' = Last("refresh", g.ret, FALSE)
        /\ UNCHANGED <<fileCache, files, sharedFolders, openFiles, userId, calls>>

-----------------------------------------------------------------------------
(* The suspended tasks: each action resumes a task at its await *)

\* the task ends.  After a normal return of an awaited trySync the caller
\* releases the lock; a thrown error skips the caller's releaseLock.
Finish(i, normal) ==
    /\ tasks' = [tasks EXCEPT ![i] = Idle]
    /\ updateLock' = IF normal /\ tasks[i].release
                     THEN releaseLock(updateLock, tasks[i].path)
                     ELSE updateLock

\* file.vault.delete(file) left out
VaultDelete_Missing(path) ==
    /\ files' = files
    /\ openFiles' = openFiles

\* the document is deleted from the vault: file.vault.delete(file)
VaultDelete(path) ==
    /\ files' = MapDel(files, path)
    /\ openFiles' = openFiles \ {path}

\* the texts within the length the model follows
Bounded(texts) == \A x \in texts : Len(x) <= MaxContentLen

\* syncLoop resumes after vault.cachedRead: checksum, outgoing patch (the
\* shadow advances), and the patch request is posted
CachedRead(i) ==
    LET t == tasks[i]
        g == getPatchBlock(fileCache, t.path, files[t.path])
    IN  /\ t.pc = "cachedRead"
        /\ IF t.path \notin DOMAIN files \/ g.err
           THEN /\ Finish(i, FALSE)
                /\ fileCache' = fileCache
                /\ last' = Quiet
           ELSE IF userId = Null
           THEN /\ Finish(i, FALSE)
                /\ fileCache' = g.cache
                /\ last' = Quiet
           ELSE /\ tasks' = [tasks EXCEPT ![i] =
                                Holding(Task("postPatch", t.path, t.release,
                                             files[t.path],
                                             getChecksum(fileCache, t.path),
                                             g.ret, <<>>), t.since)]
                /\ fileCache' = g.cache
                /\ updateLock' = updateLock
                /\ last' = Quiet
        /\ UNCHANGED <<now, updateQueue, files, sharedFolders, openFiles, userId, calls>>

\* incoming_checksum != checksum, with no check at all
ChecksumDiverged_Ignored(resp, t) == FALSE

\* incoming_checksum != checksum
ChecksumDiverged(resp, t) == resp.checksum # t.checksum

\* a checksum other than the one sent
OtherChecksum(sent) == IF sent = md5(<<>>) THEN md5(<<"a">>) ELSE md5(<<>>)

\* the patches the server may send: none, the one it received, or the patch
\* between two contents
InPatches(t, contents) ==
    {t.patch} \cup {patch_toText(patch_make(x, y)) : x, y \in contents}

\* the responses to the patch request of task t
PatchResponses(t, contents) ==
         {Response(200, pt, t.checksum, <<>>, Null) : pt \in InPatches(t, contents)}
    \cup {Response(200, t.patch, OtherChecksum(t.checksum), <<>>, Null)}
    \cup {Response(409, <<>>, t.checksum, c, Null) : c \in contents \cup {FILE_IS_DELETED}}
    \cup {Response(404, <<>>, t.checksum, c, Null) : c \in {ROOT_DOES_NOT_EXIST, <<>>}}
    \cup {Response(500, <<>>, t.checksum, <<>>, Null)}

\* the texts the patch of a response would produce now
Patched(path, patch) ==
    {patch_apply(patch_fromText(patch), x) :
        x \in    (IF path \in DOMAIN files THEN {files[path]} ELSE {})
            \cup (IF path \in DOMAIN fileCache THEN {fileCache[path].content} ELSE {})}

\* syncLoop resumes with the response of postPatch
PostPatchResponse(i, resp) ==
    LET t == tasks[i]
        p == t.path
        root == getSharedRoot(sharedFolders, p)
    IN  /\ t.pc = "postPatch"
        /\ Bounded(Patched(p, resp.patch))
        /\ last' = Event("postPatch", p, TRUE, i, t, resp)
        /\ IF resp.status = 409 /\ Contains(resp.content, FILE_IS_DELETED)
           THEN \* FileDeletedError, caught by trySync
                /\ fileCache' = deleteCachedFile(fileCache, p)
                /\ VaultDelete(p)
                /\ Finish(i, TRUE)
                /\ UNCHANGED sharedFolders
           ELSE IF resp.status = 200 /\ ChecksumDiverged(resp, t)
           THEN /\ Finish(i, TRUE)
                /\ UNCHANGED <<fileCache, files, openFiles, sharedFolders>>
           ELSE IF resp.status = 200
           THEN /\ tasks' = [tasks EXCEPT ![i] =
                                Holding(Task("vaultRead200", p, t.release, t.content,
                                             t.checksum, t.patch, resp.patch),
                                        t.since)]
                /\ UNCHANGED <<updateLock, fileCache, files, openFiles, sharedFolders>>
           ELSE IF resp.status = 409
           THEN /\ fileCache' = updateCachedFile(fileCache, p, resp.content)
                /\ files' = IF p \in DOMAIN files THEN MapPut(files, p, resp.content)
                            ELSE files
                /\ Finish(i, TRUE)
                /\ UNCHANGED <<openFiles, sharedFolders>>
           ELSE IF resp.status = 404 /\ Contains(resp.content, ROOT_DOES_NOT_EXIST)
           THEN /\ sharedFolders' = IF root.err THEN sharedFolders
                                    ELSE MapDel(sharedFolders, root.root)
                /\ Finish(i, ~root.err)
                /\ UNCHANGED <<fileCache, files, openFiles>>
           ELSE IF resp.status = 404
           THEN /\ fileCache' = deleteCachedFile(fileCache, p)
                /\ Finish(i, TRUE)
                /\ UNCHANGED <<files, openFiles, sharedFolders>>
           ELSE \* throw new Error("Server error")
                /\ Finish(i, FALSE)
                /\ UNCHANGED <<fileCache, files, openFiles, sharedFolders>>
        /\ UNCHANGED <<now, updateQueue, userId, calls>>

\* syncLoop resumes after vault.read: the inbound patch is applied to the
\* content just read and to the shadow, and a non-empty patch is written back
ApplyResponse(i) ==
    LET t == tasks[i]
        p == t.path
        a == applyPatch(fileCache, p, files[p], t.incoming)
    IN  /\ t.pc = "vaultRead200"
        /\ Bounded(Patched(p, t.incoming))
        /\ IF p \notin DOMAIN files \/ a.err
           THEN /\ Finish(i, FALSE)
                /\ UNCHANGED <<fileCache, files>>
                /\ last' = Event("applyPatch", p, FALSE, i, t, NoResponse)
           ELSE /\ fileCache' = a.cache
                /\ files' = IF Len(t.incoming) > 0 THEN MapPut(files, p, a.ret) ELSE files
                /\ Finish(i, TRUE)
                /\ last' = Event("applyPatch", p, TRUE, i, t, NoResponse)
        /\ UNCHANGED <<now, updateQueue, sharedFolders, openFiles, userId, calls>>

\* the fetch of postPatch fails: syncLoop throws
PostPatchFailure(i) ==
    /\ tasks[i].pc = "postPatch"
    /\ Finish(i, FALSE)
    /\ last' = Event("postPatch", tasks[i].path, FALSE, i, tasks[i], NoResponse)
    /\ UNCHANGED <<now, fileCache, updateQueue, files, sharedFolders, openFiles,
                   userId, calls>>

\* registerFile resumes after vault.read and posts the registration; a failed
\* read is caught and logged by registerFile
VaultRead(i) ==
    LET t == tasks[i]
    IN  /\ t.pc = "vaultRead"
        /\ IF t.path \notin DOMAIN files
           THEN /\ Finish(i, TRUE)
                /\ last' = Quiet
           ELSE /\ tasks' = [tasks EXCEPT ![i] =
                                Holding(Task("register", t.path, t.release,
                                             files[t.path], <<>>, <<>>, <<>>),
                                        t.since)]
                /\ updateLock' = updateLock
                /\ last' = Quiet
        /\ UNCHANGED <<now, fileCache, updateQueue, files, sharedFolders, openFiles,
                       userId, calls>>

UserId == <<"u">>

\* the responses to a registration
RegisterResponses(contents) ==
         {Response(st, <<>>, <<>>, c, UserId) : st \in {200, 409}, c \in contents}
    \cup {Response(409, <<>>, <<>>, FILE_IS_DELETED, UserId)}
    \cup {Response(500, <<>>, <<>>, <<>>, UserId)}

\* registerFile resumes with the response of the registration
RegisterResponse(i, resp) ==
    LET t == tasks[i]
        p == t.path
    IN  /\ t.pc = "register"
        /\ userId' = IF userId = Null /\ resp.userId # Null THEN resp.userId ELSE userId
        /\ last' = Event("register", p, TRUE, i, t, resp)
        /\ IF resp.status = 409 /\ Contains(resp.content, FILE_IS_DELETED)
           THEN \* FileDeletedError, caught by registerFile
                /\ fileCache' = deleteCachedFile(fileCache, p)
                /\ VaultDelete(p)
           ELSE IF resp.status = 409 \/ resp.status = 200
           THEN /\ fileCache' = createCachedFile(fileCache, p, resp.content)
                /\ UNCHANGED <<files, openFiles>>
           ELSE \* throw new Error("Failed to register file"), caught and logged
                UNCHANGED <<fileCache, files, openFiles>>
        /\ Finish(i, TRUE)
        /\ UNCHANGED <<now, updateQueue, sharedFolders, calls>>

\* the fetch of the registration fails: caught and logged by registerFile
RegisterFailure(i) ==
    /\ tasks[i].pc = "register"
    /\ Finish(i, TRUE)
    /\ last' = Event("register", tasks[i].path, FALSE, i, tasks[i], NoResponse)
    /\ UNCHANGED <<now, fileCache, updateQueue, files, sharedFolders, openFiles,
                   userId, calls>>

\* the rename handler resumes after deleteFileByPath: on success the renamed
\* file is synced (trySync not awaited); a failed delete ends the handler
DeleteResponse(i, ok) ==
    LET t == tasks[i]
        p == t.path
        rest == [tasks EXCEPT ![i] = Idle]
        r == acquireLock(updateLock, p, now)
        n == trySync(fileCache, sharedFolders, p, FALSE)
    IN  /\ t.pc = "deleteFile"
        /\ IF ok /\ r.ret
           THEN /\ tasks' = Spawn(rest, n)
                /\ updateLock' = releaseLock(r.lock, p)
           ELSE /\ tasks' = rest
                /\ updateLock' = updateLock
        /\ last' = Quiet
        /\ UNCHANGED <<now, fileCache, updateQueue, files, sharedFolders, openFiles,
                       userId, calls>>

Slots == 1..MaxTasks

\* a document with no text
Blank == {<<>>}

\* the paths of the vault
VaultPaths == {FileA, FileB}

\* the steps of the suspended tasks, with the documents and responses drawn
\* from the given contents
TaskStep(contents) ==
    \/ \E i \in Slots : CachedRead(i)
    \/ \E i \in Slots : \E resp \in PatchResponses(tasks[i], contents) :
          PostPatchResponse(i, resp)
    \/ \E i \in Slots : PostPatchFailure(i)
    \/ \E i \in Slots : ApplyResponse(i)
    \/ \E i \in Slots : VaultRead(i)
    \/ \E i \in Slots : \E resp \in RegisterResponses(contents) : RegisterResponse(i, resp)
    \/ \E i \in Slots : RegisterFailure(i)

\* The whole plugin, every event and timer, on blank documents: the
\* scheduling of the sync attempts.
Next ==
    \/ \E t \in LeaseInstants : Tick(t)
    \/ \E p \in VaultPaths, c \in Blank : Modify(p, c)
    \/ \E p \in VaultPaths : FileOpen(p)
    \/ \E p \in VaultPaths : \E ok \in DeleteOutcomes(p) : Delete(p, ok)
    \/ \E p \in {FileA}, q \in {FileB} : Rename(p, q)
    \/ \E p \in VaultPaths : OpenTimer(p)
    \/ \E order \in Orders(EnqueuedFiles) : EnqueuePass(order)
    \/ \E clock \in Readings(Len(updateQueue), LeaseInstants) : RefreshTick(clock)
    \/ \E i \in Slots, ok \in BOOLEAN : DeleteResponse(i, ok)
    \/ TaskStep(Blank)

\* the shared folder is registered under its own name: the registration a
\* missing root removes
InitScheduling ==
    /\ Init
    /\ sharedFolders = [f \in {Folder} |-> Folder]

Spec == InitScheduling /\ [][Next]_vars

\* The sync driver on documents with text: edits and opened files start the
\* attempts, the server answers with any patch, checksum and content.
NextSync ==
    \/ \E p \in {FileA}, c \in Contents : Modify(p, c)
    \/ \E p \in {FileA} : FileOpen(p)
    \/ \E p \in {FileA} : OpenTimer(p)
    \/ TaskStep(Contents)

SpecSync == Init /\ [][NextSync]_vars

-----------------------------------------------------------------------------
(* The root reconciliation: the root timer and syncRoot *)

\* the longest manifest
MaxTree == 2

\* "DELETED_", the prefix of the name of a tombstone: one symbol of 8 characters
DELETED_ == <<"DELETED_">>

\* a document in a folder of the shared folder
FileDeep == getRootPath(Folder) \o <<"/", "d", "/", "a">>

\* the documents the manifests speak of
RootPaths == {FileA, FileDeep}

\* the localized paths a manifest may list: documents and tombstones, at the
\* top of the root and in a folder
ManifestEntries ==
    {<<"a">>, <<"d", "/", "a">>, DELETED_ \o <<"a">>, <<"d", "/">> \o DELETED_ \o <<"a">>}

\* the manifests: responseJSON.tree
Trees == UNION {[1..n -> ManifestEntries] : n \in 0..MaxTree}

\* the vaults the reconciliation may find
Vaults == UNION {[S -> Contents] : S \in SUBSET RootPaths}

\* the response of getRoot
RootManifest(tree) == [Response(200, <<>>, <<>>, <<>>, Null) EXCEPT !.tree = tree]

\* the body of the loop of syncRoot for one entry of the tree
syncRootEntry(fs, folder, localizedPath) ==
    LET path == folder \o <<"/">> \o localizedPath
        file_name == FileName(localizedPath)
        real_file == Slice(file_name, Len(DELETED_))
        real_path == folder \o <<"/">> \o real_file
    IN  IF StartsWith(file_name, DELETED_)
        THEN IF real_path \in DOMAIN fs THEN MapDel(fs, real_path) ELSE fs
        ELSE IF path \notin DOMAIN fs THEN MapPut(fs, path, <<>>) ELSE fs

RECURSIVE syncRoot(_, _, _)
\* syncRoot(root) from the manifest on: the walk over the tree
syncRoot(fs, folder, tree) ==
    IF tree = <<>> THEN fs
    ELSE syncRoot(syncRootEntry(fs, folder, Head(tree)), folder, Tail(tree))

\* the root timer: syncRoot(root) for a registered folder, suspended at getRoot
RootTimer(root) ==
    /\ root \in DOMAIN sharedFolders
    /\ LET t == Task("getRoot", root, FALSE, <<>>, <<>>, <<>>, <<>>)
       IN  /\ CanSpawn(tasks, t)
           /\ tasks' = Spawn(tasks, t)
    /\ last' = Quiet
    /\ UNCHANGED <<now, fileCache, updateLock, updateQueue, files, sharedFolders,
                   openFiles, userId, calls>>

\* syncRoot resumes with the manifest
RootResponse(i, tree) ==
    LET t == tasks[i]
    IN  /\ t.pc = "getRoot"
        /\ files' = syncRoot(files, getRootPath(t.path), tree)
        /\ openFiles' = openFiles \cap DOMAIN files'
        /\ Finish(i, TRUE)
        /\ last' = Event("syncRoot", t.path, TRUE, i, t, RootManifest(tree))
        /\ UNCHANGED <<now, fileCache, updateQueue, sharedFolders, userId, calls>>

\* getRoot fails: the root timer catches and logs
RootFailure(i) ==
    /\ tasks[i].pc = "getRoot"
    /\ Finish(i, TRUE)
    /\ last' = Event("syncRoot", tasks[i].path, FALSE, i, tasks[i], NoResponse)
    /\ UNCHANGED <<now, fileCache, updateQueue, files, sharedFolders, openFiles,
                   userId, calls>>

\* the plugin loaded on any vault
InitRoot ==
    /\ now = 0
    /\ fileCache = <<>>
    /\ updateLock = <<>>
    /\ updateQueue = <<>>
    /\ files \in Vaults
    /\ sharedFolders \in {[f \in {Folder} |-> r] : r \in {Folder, <<"r">>}}
    /\ openFiles = {}
    /\ userId = Null
    /\ tasks = [i \in 1..MaxTasks |-> Idle]
    /\ last = Quiet
    /\ calls = [p \in Paths |-> NoCall]

NextRoot ==
    \/ \E root \in {Folder} : RootTimer(root)
    \/ \E i \in Slots, tree \in Trees : RootResponse(i, tree)
    \/ \E i \in Slots : RootFailure(i)

SpecRoot == InitRoot /\ [][NextRoot]_vars

-----------------------------------------------------------------------------
(* The refresh timer draining the queue: paths are pushed with delays that *)
(* end before the clock of the model does, time advances, the refresh      *)
(* timer keeps firing and the attempts it starts get their answers         *)

\* the delays of the pushes to drain
SoonDelays == {0, LOCK_TIMEOUT - 2}

\* pushUpdate(path, delay) with a visibility the clock will pass
PushSoon(path, delay) ==
    /\ now + delay < MaxNow
    /\ PushUpdate(path, delay)

NextDrain ==
    \/ \E t \in Instants : Tick(t)
    \/ \E p \in VaultPaths, d \in SoonDelays : PushSoon(p, d)
    \/ \E clock \in Readings(Len(updateQueue), Instants) : RefreshTick(clock)
    \/ TaskStep(Blank)

SpecDrain ==
    /\ Init
    /\ [][NextDrain]_vars
    /\ WF_vars(\E t \in Instants : Tick(t))
    /\ SF_vars(\E clock \in Readings(Len(updateQueue), Instants) : RefreshTick(clock))
    /\ WF_vars(TaskStep(Blank))

-----------------------------------------------------------------------------
(* Properties of the lock table (SpecLock) *)

\* C2: for any path, an acquireLock(path) call that follows, with no
\* releaseLock(path) in between, one that returned true returns false when
\* less than LOCK_TIMEOUT ms have passed since that call; it returns true only
\* when the lease has elapsed.
C2_LockMutualExclusion ==
    [][\A p \in Paths :
          (last'.op = "acquireLock" /\ last'.path = p /\ calls[p] # NoCall)
          => /\ (now - calls[p] < LOCK_TIMEOUT => ~last'.ok)
             /\ (last'.ok => now - calls[p] >= LOCK_TIMEOUT)]_vars

\* a second acquireLock on a held path was refused one millisecond before the
\* lease ran out
C2_Witness ==
    /\ last.op = "acquireLock"
    /\ ~last.ok
    /\ calls[last.path] # NoCall
    /\ now - calls[last.path] = LOCK_TIMEOUT - 1

-----------------------------------------------------------------------------
(* Properties of the refresh queue (SpecQueue) *)

\* the indices of the items of the queue that are visible at time t
VisibleAt(queue, t) == {i \in 1..Len(queue) : queue[i].visibility <= t}

\* the least element of a non-empty set of numbers
Least(S) == CHOOSE i \in S : \A j \in S : i <= j

\* C3: getNextUpdate returns the first item, scanning from the front, whose
\* visibleAt is <= now (items ahead of it that are not yet visible do not
\* block it), and returns none only when no queued item is visible.
C3_ReturnsFirstVisible ==
    [][last'.op = "getNextUpdate"
       => LET visible == VisibleAt(updateQueue, now)
          IN  IF visible = {} THEN last'.path = Null
              ELSE last'.path = updateQueue[Least(visible)].path]_vars

\* C4: getNextUpdate never returns (and never removes) an item whose
\* visibleAt is still in the future, whatever the queue and the depth of the
\* scan: a removed item was visible by the time the call returned.
C4_NeverReturnsFuture ==
    [][last'.op = "getNextUpdate"
       => \A i \in 1..Len(updateQueue) :
             (\/ updateQueue[i].path = last'.path
              \/ \A j \in 1..Len(updateQueue') : updateQueue'[j] # updateQueue[i])
             => updateQueue[i].visibility <= now']_vars

\* the queue without its item at position i
Without(queue, i) == [j \in 1..(Len(queue) - 1) |-> IF j < i THEN queue[j] ELSE queue[j + 1]]

\* C17: a getNextUpdate call that returns a path removes exactly that one
\* item and leaves the other items in their order with their visibleAt; a
\* call that returns none leaves the queue unchanged.
C17_RemovesOnlyReturned ==
    [][last'.op = "getNextUpdate"
       => IF last'.path = Null
          THEN updateQueue' = updateQueue
          ELSE \E i \in 1..Len(updateQueue) :
                  /\ updateQueue[i].path = last'.path
                  /\ updateQueue' = Without(updateQueue, i)]_vars

\* a call returned a path and left the two other items, which are not
\* visible at the same instant
C17_Witness ==
    /\ last.op = "getNextUpdate"
    /\ last.ok
    /\ Len(updateQueue) = 2
    /\ updateQueue[1].visibility # updateQueue[2].visibility

-----------------------------------------------------------------------------
(* Properties of the lock table, continued (SpecLock) *)

\* C16: acquireLock(path) on a held lock fails and leaves the recorded time
\* of acquisition unchanged when the age of the lock is below LOCK_TIMEOUT;
\* it succeeds and records the current time when the age is LOCK_TIMEOUT or
\* more.  A refused acquire never extends the lease.
C16_RefusalKeepsTimestamp ==
    [][\A p \in Paths :
          (last'.op = "acquireLock" /\ last'.path = p /\ p \in DOMAIN updateLock)
          => IF now - updateLock[p] < LOCK_TIMEOUT
             THEN ~last'.ok /\ updateLock' = updateLock
             ELSE last'.ok /\ updateLock'[p] = now]_vars

\* a held lock of time 0 was refused later and still carries time 0
C16_Witness ==
    /\ last.op = "acquireLock"
    /\ ~last.ok
    /\ now > 0
    /\ updateLock[last.path] = 0

-----------------------------------------------------------------------------
(* Properties of the scheduling (Spec) *)

\* the sync attempts (syncLoop runs) in flight for a path
InFlight(p) ==
    {i \in Slots : /\ tasks[i].path = p
                   /\ tasks[i].pc \in {"cachedRead", "postPatch", "vaultRead200",
                                       "vaultRead", "register"}}

\* C1: in every interleaving of the events and timers, as long as no attempt
\* lasts longer than the lease (the clock has not reached LOCK_TIMEOUT), at
\* most one sync attempt is in flight for any path.
C1_OneAttemptPerPath ==
    now < LOCK_TIMEOUT => \A p \in Paths : Cardinality(InFlight(p)) <= 1

\* the paths with a pending item
Pending(queue) == {queue[i].path : i \in 1..Len(queue)}

\* C5: in every reachable state the refresh queue holds at most one item per
\* path, and pushUpdate on a path with a pending item returns false and
\* leaves the queue unchanged.
C5_OneItemPerPath ==
    /\ \A i, j \in 1..Len(updateQueue) :
          i # j => updateQueue[i].path # updateQueue[j].path
    /\ \A p \in Pending(updateQueue) :
          pushUpdate(updateQueue, p, 0, now) = [ret |-> FALSE, queue |-> updateQueue]

\* an enqueue pass met a path that was pending already, with both paths queued
C5_Witness ==
    /\ last.op = "enqueue"
    /\ last.ok
    /\ Pending(updateQueue) = {FileA, FileB}

-----------------------------------------------------------------------------
(* Properties of the sync driver (SpecSync) *)

\* the last step handled the response of a patch request
PatchAnswered == last.op = "postPatch" /\ last.ok

\* the response signals that the file is deleted
DeletionSignal(resp) == resp.status = 409 /\ Contains(resp.content, FILE_IS_DELETED)

\* C6: when a patch response has status 200 and a checksum other than the one
\* sent, the attempt ends without writing to the live document.
C6_ChecksumMismatchSkip ==
    [][(last'.op = "postPatch" /\ last'.ok /\ last'.resp.status = 200
            /\ last'.resp.checksum # last'.task.checksum)
       => /\ files' = files
          /\ tasks'[last'.slot] = Idle]_vars

\* a response with another checksum and a patch that is not empty was handled
C6_Witness ==
    /\ PatchAnswered
    /\ last.resp.status = 200
    /\ last.resp.checksum # last.task.checksum
    /\ last.resp.patch # <<>>

\* C7: whenever a registration or a patch call signals deletion, the attempt
\* ends with the shadow entry absent and the local document deleted.
C7_DeletionPropagation ==
    (last.op \in {"postPatch", "register"} /\ last.ok /\ DeletionSignal(last.resp))
    => /\ last.path \notin DOMAIN fileCache
       /\ last.path \notin DOMAIN files
       /\ tasks[last.slot] = Idle

\* a patch call of a tracked, existing document signalled deletion
C7_Witness ==
    /\ PatchAnswered
    /\ DeletionSignal(last.resp)
    /\ last.task.content # <<>>

\* C8: when a patch response has status 409 (not the deletion signal) with
\* content C, the shadow becomes C and the live document is overwritten with
\* C, whatever the local content and the shadow were.
C8_ConflictOverride ==
    [][(last'.op = "postPatch" /\ last'.ok /\ last'.resp.status = 409
            /\ ~DeletionSignal(last'.resp) /\ last'.path \in DOMAIN files)
       => /\ last'.path \in DOMAIN fileCache'
          /\ fileCache'[last'.path].content = last'.resp.content
          /\ files'[last'.path] = last'.resp.content]_vars

\* a conflict response replaced a local content that differed from it
C8_Witness ==
    /\ PatchAnswered
    /\ last.resp.status = 409
    /\ ~DeletionSignal(last.resp)
    /\ last.task.content # last.resp.content
    /\ last.path \in DOMAIN files
    /\ files[last.path] = last.resp.content

\* the last step applied the patch of a 200 response with the checksum sent,
\* and the patch was the one the client had sent; nothing touched the live
\* document or the shadow between the request and the response
EchoApplied ==
    /\ last'.op = "applyPatch"
    /\ last'.ok
    /\ last'.task.incoming = last'.task.patch
    /\ files[last'.path] = last'.task.content
    /\ fileCache[last'.path].content = last'.task.content

\* C9: for a tracked document with shadow S and live content L, when the
\* server answers the patch request with 200, the checksum sent and the patch
\* sent, then after the round trip the shadow is L and the live document is L.
C9_EchoConvergence ==
    [][EchoApplied
       => /\ fileCache'[last'.path].content = last'.task.content
          /\ files'[last'.path] = last'.task.content]_vars

\* C9 (amended): after the round trip with an echoing server the shadow and
\* the live document both hold the echoed patch applied to L, which is L when
\* the patch is empty (S = L).
C9_EchoReapplied ==
    [][EchoApplied
       => LET again == patch_apply(patch_fromText(last'.task.patch), last'.task.content)
          IN  /\ fileCache'[last'.path].content = again
              /\ files'[last'.path] = again
              /\ (last'.task.patch = <<>> => again = last'.task.content)]_vars

\* an echoed insertion left the shadow and the live document away from L
C9_Witness ==
    /\ last.op = "applyPatch"
    /\ last.ok
    /\ last.task.incoming = last.task.patch
    /\ last.task.patch # <<>>
    /\ last.path \in DOMAIN files
    /\ files[last.path] # last.task.content
    /\ fileCache[last.path].content = files[last.path]

\* C10: on a 200 response with the checksum sent, the inbound patch is applied
\* to the re-read live content and to the shadow; the result is written to the
\* document exactly when the patch is not empty; with an empty patch nothing
\* is written and the shadow is the content read at the start of the attempt.
C10_PatchAcknowledged ==
    [][(last'.op = "applyPatch" /\ last'.ok)
       => LET p == last'.path
              incoming == patch_fromText(last'.task.incoming)
          IN  /\ fileCache'[p].content = patch_apply(incoming, fileCache[p].content)
              /\ files'[p] = IF last'.task.incoming # <<>>
                             THEN patch_apply(incoming, files[p])
                             ELSE files[p]
              /\ (last'.task.incoming = <<>>
                    => /\ files' = files
                       /\ fileCache'[p].content = last'.task.content)]_vars

\* the response says that the root does not exist
RootMissing(resp) == resp.status = 404 /\ Contains(resp.content, ROOT_DOES_NOT_EXIST)

\* C12: when a patch response has status 404 and says that the root does not
\* exist, the registration covering the file is removed, whatever the folder
\* name and the root identifier: the file is in no shared folder afterwards
\* and a later sync attempt for it sends nothing.
C12_RootMissingUnregisters ==
    (PatchAnswered /\ RootMissing(last.resp))
    => /\ ~InScope(sharedFolders, last.path)
       /\ trySync(fileCache, sharedFolders, last.path, FALSE) = Idle

\* C13: a registration response with a status other than 200 that is not the
\* deletion signal is a hard failure: no shadow entry is created, the
\* document stays untracked.
C13_RegistrationHardFailure ==
    [][(last'.op = "register" /\ last'.ok /\ last'.resp.status # 200
            /\ ~DeletionSignal(last'.resp))
       => /\ fileCache' = fileCache
          /\ (~isTracked(fileCache, last'.path) => ~isTracked(fileCache', last'.path))]_vars

\* C18: when a patch response has status 404 and does not say that the root
\* is missing, the attempt removes the shadow entry of the path and leaves
\* the live document and the registrations as they are; the next sync
\* attempt for the path, which is one for a file that is still in a shared
\* folder, registers it, and a registration creates the shadow from the
\* content of the response.
C18_NotFoundPurgesShadow ==
    [][/\ (last'.op = "postPatch" /\ last'.ok /\ last'.resp.status = 404
              /\ ~RootMissing(last'.resp))
          => /\ ~isTracked(fileCache', last'.path)
             /\ files' = files
             /\ sharedFolders' = sharedFolders
             /\ InScope(sharedFolders', last'.path)
                   => trySync(fileCache', sharedFolders', last'.path, FALSE).pc = "vaultRead"
       /\ (last'.op = "register" /\ last'.ok /\ last'.resp.status = 200)
          => /\ isTracked(fileCache', last'.path)
             /\ fileCache'[last'.path].content = last'.resp.content]_vars

\* a 404 response for a document that exists, in a shared folder, left it
\* without a shadow
C18_Witness ==
    /\ PatchAnswered
    /\ last.resp.status = 404
    /\ ~RootMissing(last.resp)
    /\ last.path \in DOMAIN files
    /\ InScope(sharedFolders, last.path)
    /\ ~isTracked(fileCache, last.path)

\* the patch exchange of the last step failed: the fetch failed or the status
\* is none of 200, 409, 404
ExchangeFailed ==
    /\ last.op = "postPatch"
    /\ \/ ~last.ok
       \/ last.resp.status \notin {200, 409, 404}

\* C19: a sync attempt whose patch exchange fails (network failure, or a
\* status other than 200, 409 and 404) leaves the shadow content as it was
\* before the attempt: the shadow read for the checksum of the request.
C19_ShadowKeptOnFailure ==
    (ExchangeFailed /\ isTracked(fileCache, last.path))
    => getChecksum(fileCache, last.path) = last.task.checksum

\* the attempt whose patch exchange just failed carried a local edit, the
\* document has not been edited since, and no other attempt is in flight
EditUnsent ==
    /\ ExchangeFailed
    /\ last.task.patch # <<>>
    /\ last.path \in DOMAIN files
    /\ files[last.path] = last.task.content
    /\ isTracked(fileCache, last.path)
    /\ InFlight(last.path) = {}

\* C22: no local edit is dropped by a failed round: after a sync attempt that
\* carried an edit fails in the patch exchange, with the document not edited
\* again, a later attempt for the path sends a non-empty patch.
C22_EditResent ==
    EditUnsent => getPatchBlock(fileCache, last.path, files[last.path]).ret # <<>>

-----------------------------------------------------------------------------
(* Properties of the scheduling, continued (Spec) *)

\* C14: a sync attempt that fails with an error other than the deletion
\* signal releases the lock its trigger acquired when it ends: the next
\* trigger for the path acquires the lock without waiting for the lease.
C14_LockReleasedOnError ==
    (ExchangeFailed /\ last.task.release)
    => acquireLock(updateLock, last.path, now).ret

\* C15: when the refresh tick cannot acquire the lock of the path it popped,
\* the path is in the queue again at the end of the tick, visible from the
\* current time, and the tick started no sync attempt.
C15_RequeuedOnContention ==
    [][(last'.op = "refresh" /\ ~last'.ok)
       => /\ \E i \in 1..Len(updateQueue') :
                updateQueue'[i] = UpdateItem(last'.path, now')
          /\ tasks' = tasks]_vars

\* a tick found the lock of its path held and put the path back
C15_Witness ==
    /\ last.op = "refresh"
    /\ ~last.ok
    /\ last.path \in DOMAIN updateLock
    /\ last.path \in Pending(updateQueue)

-----------------------------------------------------------------------------
(* Properties of the root reconciliation (SpecRoot) *)

\* the last step was a reconciliation pass over a manifest
Reconciled == last'.op = "syncRoot" /\ last'.ok

\* the entries of a manifest
Entries(tree) == {tree[i] : i \in 1..Len(tree)}

\* the tombstone of a localized path: DELETED_ before its last segment
TombstoneOf(localized) ==
    SubSeq(localized, 1, LastSlash(localized)) \o DELETED_ \o FileName(localized)

\* the path of a document in the root folder
Localized(root, path) == Slice(path, Len(getRootPath(root)) + 1)

\* C11: a reconciliation pass never deletes a local document for which the
\* manifest holds no tombstone at that document's path, and never changes
\* the content of a document that exists already.
C11_CreatesOrDeletesTombstoned ==
    [][Reconciled
       => \A p \in DOMAIN files :
             IF p \in DOMAIN files'
             THEN files'[p] = files[p]
                  \/ TombstoneOf(Localized(last'.path, p)) \in Entries(last'.resp.tree)
             ELSE TombstoneOf(Localized(last'.path, p)) \in Entries(last'.resp.tree)]_vars

\* a manifest entry is a tombstone
IsTombstone(localized) == StartsWith(FileName(localized), DELETED_)

\* the localized path of the document a tombstone stands for
RealOf(localized) ==
    SubSeq(localized, 1, LastSlash(localized)) \o Slice(FileName(localized), Len(DELETED_))

\* C20: for each tombstone of the manifest, at any depth (d/DELETED_n), the
\* pass deletes the real local document at the same place (folder/d/n) if it
\* is there; for each other entry whose document is absent it creates an
\* empty document at that path.  (Entries that the same manifest both lists
\* and tombstones are left aside.)
C20_TombstonesAndCreations ==
    [][Reconciled
       => LET tree == Entries(last'.resp.tree)
              folder == getRootPath(last'.path)
          IN  \A e \in tree :
                 IF IsTombstone(e)
                 THEN RealOf(e) \notin tree
                      => (folder \o <<"/">> \o RealOf(e)) \notin DOMAIN files'
                 ELSE (TombstoneOf(e) \notin tree
                          /\ (folder \o <<"/">> \o e) \notin DOMAIN files)
                      => /\ (folder \o <<"/">> \o e) \in DOMAIN files'
                         /\ files'[folder \o <<"/">> \o e] = <<>>]_vars

-----------------------------------------------------------------------------
(* Properties of the lock lease and of the delete event (Spec) *)

\* the attempt of slot i runs under a lock its caller acquired less than the
\* lease ago and releases only after the attempt
HoldsLease(i) ==
    /\ tasks[i].pc # "idle"
    /\ tasks[i].release
    /\ tasks[i].since # NoCall
    /\ now - tasks[i].since < LOCK_TIMEOUT

\* C23: a lock is only cleared by the attempt that holds it: when an attempt
\* outlives the lease and a second attempt reclaims the lock of the path, the
\* releaseLock of the first does not clear the lock of the second, so no
\* third attempt acquires the path while the second is in flight within its
\* lease.
C23_ClearedOnlyByHolder ==
    \A i \in Slots :
       HoldsLease(i) => ~acquireLock(updateLock, tasks[i].path, now).ret

\* the delete event of a tracked document posted the remote delete, and the
\* call succeeded
DeletedRemotely == last.op = "delete" /\ last.ok

\* C24: after a local delete event for a tracked document whose remote
\* delete call succeeds the path is no longer tracked: its shadow is absent,
\* so a document created later at the path is registered, not diffed against
\* the old shadow.
C24_DeleteUntracks ==
    DeletedRemotely =>
       /\ ~isTracked(fileCache, last.path)
       /\ trySync(fileCache, sharedFolders, last.path, FALSE).pc # "cachedRead"

-----------------------------------------------------------------------------
(* Properties of the draining of the queue (SpecDrain) *)

\* the path is queued, and it and every item ahead of it become visible
\* before the clock of the model ends
Drainable(p) ==
    \E i \in 1..Len(updateQueue) :
       /\ updateQueue[i].path = p
       /\ \A j \in 1..i : updateQueue[j].visibility < MaxNow

\* the refresh timer got the path from getNextUpdate
Popped(p) == last.op = "refresh" /\ last.path = p

\* C21: provided time advances and the refresh timer keeps firing, every
\* path enqueued, with any delay, is eventually returned by getNextUpdate,
\* also when items have different visibility times and when lock contention
\* puts a path back.
C21_BacklogDrains ==
    \A p \in VaultPaths : Drainable(p) ~> Popped(p)

\* the refresh timer popped a path whose lock was held and put it back,
\* while an item that is not visible yet was waiting
C21_Witness ==
    /\ Popped(FileA)
    /\ ~last.ok
    /\ \E i \in 1..Len(updateQueue) :
          /\ updateQueue[i].path = FileB
          /\ ~IsVisible(updateQueue[i], now)

====
